---- MODULE Spec2Model ----
(***************************************************************************)
(* Reflex evaluation and supervision engine of openi-core:                 *)
(*   crates/core-reflex/src/monitor.rs     the three reference monitors    *)
(*   crates/core-reflex/src/supervisor.rs  ReflexSupervisor, both loops    *)
(*   crates/core-reflex/src/lib.rs         Envelope, ReflexAction, traits  *)
(*   crates/core-kernel/src/lib.rs         MockBus / MockSub               *)
(*   crates/core-fabric/src/bus.rs         the in-process Bus              *)
(*                                                                         *)
(* Strings are sequences of tokens: the token "/" is the slash character,  *)
(* every other token is a non-empty run of characters without a slash.     *)
(* Instants and durations are integers in units of 100 ms.                 *)
(***************************************************************************)
EXTENDS Integers, Sequences, FiniteSets, TLC

VARIABLES
    registry,   \* Arc<Mutex<Vec<Box<dyn Reflex>>>>: the reflexes, in registration order
    now,        \* the clock read by Instant::now()
    trace,      \* history: every hook invocation, in the order they ran
    lock,       \* owner of the registry mutex: "none", "event" or "tick"
    evPc,       \* event loop: "start", "next", "lock", "iter", "publish", "done"
    evIdx,      \* event loop: index of the reflex the pass is at
    evCur,      \* event loop: the envelope being evaluated
    evRes,      \* event loop: the verdict waiting to be published
    tkPc,       \* tick loop: "sleep", "lock", "iter"
    tkIdx,      \* tick loop: index of the reflex the pass is at
    tkNow,      \* tick loop: the instant read when the ticker fired
    tkCount,    \* history: number of ticks fired
    chan,       \* MockSub.rx: envelopes sent and not yet received by the supervisor
    subState,   \* the supervisor's receiver: "none", "open", "lagged", "closed", "failed"
    sent,       \* history: every bus.publish call, <<subject, envelope>> (and "Err" if it failed)
    delivered,  \* history: envelopes returned by sub.next() to the event loop
    counter,    \* event source: number of events published so far
    simWake,    \* simulate_reflex_events: the instant its sleep ends
    capacity,   \* MockBus.tx: the number of envelopes the broadcast channel retains
    subs,       \* Bus.subs: the pattern of each SubEntry, subs[id + 1] for id
    next_id,    \* Bus.next_id
    rx,         \* the mpsc channel of each subscription: sent and not yet received
    rxOpen,     \* whether the Receiver of each subscription is still alive
    pubPc,      \* Bus::publish: "idle", or "send" inside the for loop over targets
    targets,    \* Bus::publish: the ids whose Sender is still to be sent to
    pubCur,     \* Bus::publish: the number of the call in progress (its place in published)
    published,  \* history: every Bus::publish call, [topic, env, done]
    inbox       \* history: for each subscription, the numbers of the calls that reached its channel

vars == <<registry, now, trace, lock, evPc, evIdx, evCur, evRes, tkPc, tkIdx,
          tkNow, tkCount, chan, subState, sent, delivered, counter, simWake,
          capacity, subs, next_id, rx, rxOpen, pubPc, targets, pubCur, published,
          inbox>>

supVars == <<lock, evPc, evIdx, evCur, evRes, tkPc, tkIdx, tkNow, tkCount, chan,
             subState, sent, delivered, counter, simWake>>

evVars == <<evPc, evIdx, evCur, evRes>>
tkVars == <<tkPc, tkIdx, tkNow, tkCount>>
busVars == <<chan, subState, sent>>
srcVars == <<counter, simWake>>
fabVars == <<subs, next_id, rx, rxOpen, pubPc, targets, pubCur, published, inbox>>

(***************************************************************************)
(* Bounds of the model.                                                    *)
(***************************************************************************)
MaxW == 2          \* RateLimitReflex windows explored: 0..MaxW
MaxN == 2          \* RateLimitReflex limits explored: 0..MaxN
MaxTime == 6       \* the clock of the single-reflex specifications stops here
MaxCalls == 3      \* hook invocations per run of SpecRateLimit
MaxStream == 3     \* hook invocations per run of SpecPanicLoop
MaxChecks == 2     \* hook invocations per run of SpecPolicyGuard
MaxReq == 2        \* PolicyGuardReflex lists explored: up to MaxReq pointers
MaxK == 2          \* PanicLoopReflex windows explored: 0..MaxK
MaxM == 2          \* PanicLoopReflex thresholds explored: 0..MaxM
MaxNow == 1        \* Spec: the clock stops here
MaxDeliver == 2    \* Spec: envelopes the event loop takes from its subscription
MaxTurns == 3      \* SpecLag: turns of the loop of simulate_reflex_events
LagCapacity == 2   \* SpecLag: envelopes the broadcast channel retains
QueueCapacity == 1 \* SpecFabric: envelopes a subscription's channel holds (1024 in Bus::subscribe)
MaxSubs == 2       \* SpecFabric: calls of Bus::subscribe
MaxPub == 2        \* SpecFabric: calls of Bus::publish

Max(a, b) == IF a >= b THEN a ELSE b

(***************************************************************************)
(* serde_json::Value, as far as the monitors look at it.                   *)
(***************************************************************************)
JNull == [t |-> "null", v |-> <<>>]
JBool(b) == [t |-> "bool", v |-> b]
JNumber(n) == [t |-> "number", v |-> n]
JString(s) == [t |-> "string", v |-> s]
JObject(m) == [t |-> "object", v |-> m]
EmptyMap == [k \in {} |-> JNull]

\* Value::get(&str): a member of an object, None for every other kind of value
HasMember(json, seg) == json.t = "object" /\ seg \in DOMAIN json.v

as_bool_or_true(json) == IF json.t = "bool" THEN json.v ELSE TRUE

\* Value::as_bool().unwrap_or(false)
as_bool_or_false(json) == IF json.t = "bool" THEN json.v ELSE FALSE

\* str::trim_start_matches('/')
RECURSIVE trim_start_matches(_)
trim_start_matches(s) ==
    IF s # <<>> /\ Head(s) = "/" THEN trim_start_matches(Tail(s)) ELSE s

\* str::split('/'): the pieces between slashes; an empty string gives one empty piece
RECURSIVE split(_)
split(s) ==
    IF \A i \in 1..Len(s) : s[i] # "/"
    THEN <<s>>
    ELSE LET i == CHOOSE j \in 1..Len(s) :
                      s[j] = "/" /\ \A k \in 1..(j - 1) : s[k] # "/"
         IN <<SubSeq(s, 1, i - 1)>> \o split(SubSeq(s, i + 1, Len(s)))

RECURSIVE walk_none_true(_, _)
walk_none_true(cur, segs) ==
    IF segs = <<>> THEN as_bool_or_false(cur)
    ELSE IF HasMember(cur, Head(segs))
         THEN walk_none_true(cur.v[Head(segs)], Tail(segs))
         ELSE TRUE

\* the loop of get_bool / header_bool over the segments of the path
RECURSIVE walk(_, _)
walk(cur, segs) ==
    IF segs = <<>> THEN as_bool_or_false(cur)
    ELSE IF HasMember(cur, Head(segs))
         THEN walk(cur.v[Head(segs)], Tail(segs))
         ELSE FALSE

(***************************************************************************)
(* ReflexAction and Result<ReflexAction, ReflexError>.                     *)
(***************************************************************************)
Continue == [ok |-> TRUE, kind |-> "Continue", reason |-> <<>>]
Alert(reason) == [ok |-> TRUE, kind |-> "Alert", reason |-> reason]
Halt(reason) == [ok |-> TRUE, kind |-> "Halt", reason |-> reason]
Err(reason) == [ok |-> FALSE, kind |-> "Err", reason |-> reason]

(***************************************************************************)
(* RateLimitReflex.                                                        *)
(***************************************************************************)
RateLimitReflex_new(window, max_events) ==
    [type |-> "RateLimitReflex", window |-> window, max_events |-> max_events,
     deque |-> <<>>]

\* Instant::duration_since saturates at zero
duration_since(t, earlier) == Max(t - earlier, 0)

prune_old_keep_all(deque, window, t) == deque

RECURSIVE prune_old_ge(_, _, _)
prune_old_ge(deque, window, t) ==
    IF deque # <<>> /\ duration_since(t, Head(deque)) >= window
    THEN prune_old_ge(Tail(deque), window, t)
    ELSE deque

RECURSIVE prune_old(_, _, _)
prune_old(deque, window, t) ==
    IF deque # <<>> /\ duration_since(t, Head(deque)) > window
    THEN prune_old(Tail(deque), window, t)
    ELSE deque

RateLimitReflex_alerts_ge(len, max_events) == len >= max_events

\* the comparison of on_event: deque.len() > max_events
RateLimitReflex_alerts(len, max_events) == len > max_events

RateLimitReflex_on_event_by_ts_ms(r, evt, t) ==
    LET dq == Append(prune_old(r.deque, r.window, evt.ts_ms), evt.ts_ms)
        r2 == [r EXCEPT !.deque = dq]
    IN IF RateLimitReflex_alerts(Len(dq), r.max_events)
       THEN [reflex |-> r2,
             res |-> Alert(<<"RateLimitReflex", Len(dq), r.window, r.max_events>>)]
       ELSE [reflex |-> r2, res |-> Continue]

RateLimitReflex_on_event(r, evt, t) ==
    LET dq == Append(prune_old(r.deque, r.window, t), t)
        r2 == [r EXCEPT !.deque = dq]
    IN IF RateLimitReflex_alerts(Len(dq), r.max_events)
       THEN [reflex |-> r2,
             res |-> Alert(<<"RateLimitReflex", Len(dq), r.window, r.max_events>>)]
       ELSE [reflex |-> r2, res |-> Continue]

RateLimitReflex_on_tick_prunes(r, t) ==
    [reflex |-> [r EXCEPT !.deque = prune_old(r.deque, r.window, t)], res |-> Continue]

\* RateLimitReflex::on_tick: Ok(ReflexAction::Continue), the queue is not touched
RateLimitReflex_on_tick(r, t) == [reflex |-> r, res |-> Continue]

(***************************************************************************)
(* PanicLoopReflex.                                                        *)
(***************************************************************************)
PanicLoopReflex_new(field_pointer, window, min_repeats) ==
    [type |-> "PanicLoopReflex", field_pointer |-> field_pointer,
     window |-> window, min_repeats |-> min_repeats, ring |-> <<>>]

\* push: the ring after the push; the count is taken from it
PanicLoopReflex_push(ring, window, is_error) ==
    Append(IF Len(ring) = window /\ ring # <<>> THEN Tail(ring) ELSE ring, is_error)

count_true(ring) == Cardinality({i \in 1..Len(ring) : ring[i]})

get_bool(json, path) == walk(json, split(trim_start_matches(path)))

PanicLoopReflex_extract_flag_headers_only(r, evt) ==
    get_bool(evt.headers, r.field_pointer)

PanicLoopReflex_extract_flag(r, evt) ==
    get_bool(evt.headers, r.field_pointer) \/ get_bool(evt.body, r.field_pointer)

PanicLoopReflex_on_event(r, evt, t) ==
    LET is_error == PanicLoopReflex_extract_flag(r, evt)
        ring == PanicLoopReflex_push(r.ring, r.window, is_error)
        cnt == count_true(ring)
        r2 == [r EXCEPT !.ring = ring]
    IN IF cnt >= r.min_repeats
       THEN [reflex |-> r2,
             res |-> Halt(<<"PanicLoopReflex", cnt, r.window, r.field_pointer>>)]
       ELSE [reflex |-> r2, res |-> Continue]

(***************************************************************************)
(* PolicyGuardReflex.                                                      *)
(***************************************************************************)
PolicyGuardReflex_new(required_true) ==
    [type |-> "PolicyGuardReflex", required_true |-> required_true]

PolicyGuardReflex_header_bool(ptr, json) == walk(json, split(trim_start_matches(ptr)))

RECURSIVE last_failing(_, _, _)
last_failing(required_true, headers, i) ==
    IF i > Len(required_true) THEN 0
    ELSE LET later == last_failing(required_true, headers, i + 1)
         IN IF later # 0 THEN later
            ELSE IF ~PolicyGuardReflex_header_bool(required_true[i], headers) THEN i
            ELSE 0

\* the for loop of on_event from position i: the position it returns Halt at, 0 if none
RECURSIVE first_failing(_, _, _)
first_failing(required_true, headers, i) ==
    IF i > Len(required_true) THEN 0
    ELSE IF ~PolicyGuardReflex_header_bool(required_true[i], headers) THEN i
    ELSE first_failing(required_true, headers, i + 1)

PolicyGuardReflex_on_event_or_body(r, evt, t) ==
    LET i == first_failing(r.required_true, evt.headers, 1)
        j == first_failing(r.required_true, evt.body, 1)
    IN IF i # 0 /\ j # 0
       THEN [reflex |-> r, res |-> Halt(<<"PolicyGuardReflex", r.required_true[i]>>)]
       ELSE [reflex |-> r, res |-> Continue]

PolicyGuardReflex_on_event(r, evt, t) ==
    LET i == first_failing(r.required_true, evt.headers, 1)
    IN IF i # 0
       THEN [reflex |-> r, res |-> Halt(<<"PolicyGuardReflex", r.required_true[i]>>)]
       ELSE [reflex |-> r, res |-> Continue]

\* Reflex::on_tick, the default of the trait
Reflex_default_on_tick(r, t) == [reflex |-> r, res |-> Continue]

(***************************************************************************)
(* Envelopes and the structured values the runs draw from.                 *)
(***************************************************************************)
Envelope(id, subject, ts_ms, headers, body) ==
    [id |-> id, subject |-> subject, ts_ms |-> ts_ms, headers |-> headers,
     body |-> body]

Key(name) == <<name>>
Obj1(k, v) == JObject([x \in {Key(k)} |-> v])
Obj2(k1, v1, k2, v2) ==
    JObject([x \in {Key(k1), Key(k2)} |-> IF x = Key(k1) THEN v1 ELSE v2])
EmptyObject == JObject(EmptyMap)

\* "/error" and "/error/code" (the example of PanicLoopReflex.field_pointer)
PtrError == <<"/", "error">>
PtrErrorCode == <<"/", "error", "/", "code">>
\* "/identity/verified" and "/policy/allowed" (run_node)
PtrVerified == <<"/", "identity", "/", "verified">>
PtrAllowed == <<"/", "policy", "/", "allowed">>

\* the headers simulate_reflex_events alternates between
HeadersFor(verified, allowed) ==
    Obj2("identity", Obj1("verified", JBool(verified)),
         "policy", Obj1("allowed", JBool(allowed)))

\* format!("evt-{}", counter)
EventId(n) == <<"evt-", n>>

(***************************************************************************)
(* Dispatch through Box<dyn Reflex>.  A hook gives the set of its possible  *)
(* outcomes: a single one for each of the three monitors of monitor.rs.    *)
(***************************************************************************)

Reflex_name(r) ==
    CASE r.type = "RateLimitReflex" -> "rate_limit"
      [] r.type = "PanicLoopReflex" -> "panic_loop"
      [] r.type = "PolicyGuardReflex" -> "policy_guard"
      [] OTHER -> r.name

Reflex_on_event(r, evt, t) ==
    CASE r.type = "RateLimitReflex" -> {RateLimitReflex_on_event(r, evt, t)}
      [] r.type = "PanicLoopReflex" -> {PanicLoopReflex_on_event(r, evt, t)}
      [] r.type = "PolicyGuardReflex" -> {PolicyGuardReflex_on_event(r, evt, t)}

Reflex_on_tick(r, t) ==
    CASE r.type = "RateLimitReflex" -> {RateLimitReflex_on_tick(r, t)}
      [] r.type = "PanicLoopReflex" -> {Reflex_default_on_tick(r, t)}
      [] r.type = "PolicyGuardReflex" -> {Reflex_default_on_tick(r, t)}

Call(idx, hook, pass, evt, t, pre, out) ==
    [idx |-> idx, hook |-> hook, pass |-> pass, evt |-> evt, at |-> t,
     pre |-> pre, post |-> out.reflex, res |-> out.res]

\* what the history keeps of a hook call made by one of the supervisor's loops:
\* the reflex's place in the registry, the hook, the pass, the envelope, the result
Dispatch(idx, hook, pass, evt, out) ==
    [idx |-> idx, hook |-> hook, pass |-> pass, evt |-> evt, res |-> out.res]

NoEvent == Envelope(EventId(0), <<>>, 0, JNull, JNull)

(***************************************************************************)
(* Single-reflex specifications: one monitor, its hooks called directly,   *)
(* as the unit tests of a monitor do.                                      *)
(***************************************************************************)
SupervisorIdle ==
    /\ lock = "none"
    /\ evPc = "start" /\ evIdx = 0 /\ evCur = NoEvent /\ evRes = Continue
    /\ tkPc = "sleep" /\ tkIdx = 0 /\ tkNow = 0 /\ tkCount = 0
    /\ chan = <<>> /\ subState = "none" /\ sent = <<>> /\ delivered = <<>>
    /\ counter = 0 /\ simWake = 0

\* get_bus: broadcast::channel(1000)
ChannelCapacity == 1000

\* Bus::new: no subscription, no publish under way
BusIdle ==
    /\ subs = <<>> /\ next_id = 0 /\ rx = <<>> /\ rxOpen = <<>>
    /\ pubPc = "idle" /\ targets = <<>> /\ pubCur = 0
    /\ published = <<>> /\ inbox = <<>>

\* time passes
Advance(limit) ==
    /\ now < limit
    /\ now' = now + 1
    /\ UNCHANGED <<registry, trace>>
    /\ UNCHANGED supVars
    /\ UNCHANGED capacity
    /\ UNCHANGED fabVars

\* r.on_event(&evt).await on the only reflex
DirectOnEvent(evt, limit) ==
    /\ Len(trace) < limit
    /\ \E out \in Reflex_on_event(registry[1], evt, now) :
          /\ registry' = <<out.reflex>>
          /\ trace' = Append(trace, Call(1, "on_event", Len(trace) + 1, evt, now,
                                         registry[1], out))
    /\ UNCHANGED now
    /\ UNCHANGED supVars
    /\ UNCHANGED capacity
    /\ UNCHANGED fabVars

\* r.on_tick(now).await on the only reflex
DirectOnTick(limit) ==
    /\ Len(trace) < limit
    /\ \E out \in Reflex_on_tick(registry[1], now) :
          /\ registry' = <<out.reflex>>
          /\ trace' = Append(trace, Call(1, "on_tick", Len(trace) + 1, NoEvent, now,
                                         registry[1], out))
    /\ UNCHANGED now
    /\ UNCHANGED supVars
    /\ UNCHANGED capacity
    /\ UNCHANGED fabVars

\* the on_event calls of the run, in order
EventCalls == SelectSeq(trace, LAMBDA c : c.hook = "on_event")

\* ---- RateLimitReflex alone
RLEvents ==
    {Envelope(EventId(1), <<"fabric.events.mock">>, 0, HeadersFor(TRUE, TRUE), EmptyObject),
     Envelope(EventId(2), <<"fabric.events.burst">>, 9, EmptyObject, Obj1("burst", JBool(TRUE)))}

InitRateLimit ==
    /\ \E W \in 0..MaxW, N \in 0..MaxN : registry = <<RateLimitReflex_new(W, N)>>
    /\ now = 0
    /\ trace = <<>>
    /\ SupervisorIdle
    /\ capacity = ChannelCapacity
    /\ BusIdle

NextRateLimit ==
    \/ Advance(MaxTime)
    \/ \E evt \in RLEvents : DirectOnEvent(evt, MaxCalls)
    \/ DirectOnTick(MaxCalls)

SpecRateLimit == InitRateLimit /\ [][NextRateLimit]_vars

\* ---- PanicLoopReflex alone
PLPointers == {PtrError, PtrErrorCode}

PLHeaders ==
    {EmptyObject, Obj1("error", JBool(TRUE)), Obj1("error", JBool(FALSE)),
     Obj1("error", Obj1("code", JBool(TRUE))), Obj1("error", Obj1("code", JBool(FALSE)))}

PLBodies == {EmptyObject, Obj1("error", JBool(TRUE))}

PLEvents ==
    {Envelope(EventId(1), <<"fabric.events.mock">>, 0, h, b) : h \in PLHeaders, b \in PLBodies}

InitPanicLoop ==
    /\ \E p \in PLPointers, K \in 0..MaxK, M \in 0..MaxM :
          registry = <<PanicLoopReflex_new(p, K, M)>>
    /\ now = 0
    /\ trace = <<>>
    /\ SupervisorIdle
    /\ capacity = ChannelCapacity
    /\ BusIdle

NextPanicLoop ==
    \/ \E evt \in PLEvents : DirectOnEvent(evt, MaxStream)
    \/ DirectOnTick(MaxStream)

SpecPanicLoop == InitPanicLoop /\ [][NextPanicLoop]_vars

\* ---- PolicyGuardReflex alone
\* "policy/allowed", the pointer written without its leading slash
PtrAllowedBare == <<"policy", "/", "allowed">>

PGPointers == {PtrVerified, PtrAllowed, PtrAllowedBare}

PGHeaders ==
    {HeadersFor(v, a) : v \in BOOLEAN, a \in BOOLEAN}
    \cup {Obj2("identity", Obj1("verified", JString(<<"yes">>)),
                "policy", Obj1("allowed", JBool(TRUE))),
          Obj2("identity", JBool(TRUE), "policy", Obj1("allowed", JBool(TRUE))),
          Obj1("policy", Obj1("allowed", JBool(TRUE))),
          JNull}

PGBodies == {EmptyObject, HeadersFor(TRUE, TRUE)}

PGEvents ==
    {Envelope(EventId(1), <<"fabric.events.mock">>, 0, h, b) : h \in PGHeaders, b \in PGBodies}

RECURSIVE SeqsUpTo(_, _)
SeqsUpTo(S, n) ==
    IF n = 0 THEN {<<>>}
    ELSE LET shorter == SeqsUpTo(S, n - 1)
         IN shorter \cup {Append(q, x) : q \in shorter, x \in S}

InitPolicyGuard ==
    /\ \E req \in SeqsUpTo(PGPointers, MaxReq) : registry = <<PolicyGuardReflex_new(req)>>
    /\ now = 0
    /\ trace = <<>>
    /\ SupervisorIdle
    /\ capacity = ChannelCapacity
    /\ BusIdle

NextPolicyGuard ==
    \/ \E evt \in PGEvents : DirectOnEvent(evt, MaxChecks)
    \/ DirectOnTick(MaxChecks)

SpecPolicyGuard == InitPolicyGuard /\ [][NextPolicyGuard]_vars

(***************************************************************************)
(* What a path leads to in a structured value, for stating the claims:     *)
(* the value reached by following the keys of the path, or Absent.         *)
(***************************************************************************)
Absent == [t |-> "absent", v |-> <<>>]

PathKeys(ptr) == split(trim_start_matches(ptr))

RECURSIVE ValueAt(_, _)
ValueAt(json, keys) ==
    IF keys = <<>> THEN json
    ELSE IF json.t = "object" /\ Head(keys) \in DOMAIN json.v
         THEN ValueAt(json.v[Head(keys)], Tail(keys))
         ELSE Absent

ResolvesTrue(json, ptr) ==
    LET x == ValueAt(json, PathKeys(ptr)) IN x.t = "bool" /\ x.v

ResolvesFalse(json, ptr) ==
    LET x == ValueAt(json, PathKeys(ptr)) IN x.t = "bool" /\ ~x.v

MissingOrNonBool(json, ptr) == ValueAt(json, PathKeys(ptr)).t # "bool"

IsRateLimit == registry[1].type = "RateLimitReflex"
IsPanicLoop == registry[1].type = "PanicLoopReflex"
IsPolicyGuard == registry[1].type = "PolicyGuardReflex"

(***************************************************************************)
(* C1..C2: RateLimitReflex, under SpecRateLimit.                           *)
(***************************************************************************)
\* the first m on_event calls of the run all arrived within the window of the first
WithinWindow(m) == EventCalls[m].at - EventCalls[1].at <= registry[1].window

\* every consecutive pair of the first m on_event calls is more than the window apart
SpacedApart(m) ==
    \A k \in 1..(m - 1) : EventCalls[k + 1].at - EventCalls[k].at > registry[1].window

\* C1: RateLimitReflex monotonicity. For every window W and limit N, each of the
\* first N events passed to on_event within W gets Continue, and when N+1 events
\* arrive within W the (N+1)th gets Alert.
C1_RateLimitMonotonicity ==
    IsRateLimit =>
        LET N == registry[1].max_events
        IN /\ \A k \in 1..Len(EventCalls) :
                  (k <= N /\ WithinWindow(k)) => EventCalls[k].res = Continue
           /\ (Len(EventCalls) >= N + 1 /\ WithinWindow(N + 1))
                  => EventCalls[N + 1].res.kind = "Alert"

C1_Witness ==
    /\ IsRateLimit
    /\ registry[1].max_events >= 2
    /\ Len(EventCalls) = registry[1].max_events + 1
    /\ WithinWindow(Len(EventCalls))
    /\ EventCalls[Len(EventCalls)].res.kind = "Alert"
    /\ EventCalls[Len(EventCalls) - 1].res = Continue

\* C2 as stated: for every window W and every limit N, N+1 events with each
\* consecutive pair more than W apart get Continue on every call.
C2_AsStated ==
    IsRateLimit =>
        \A m \in 1..Len(EventCalls) :
            (m <= registry[1].max_events + 1 /\ SpacedApart(m))
                => EventCalls[m].res = Continue

\* C2: RateLimitReflex window expiry. For every window W and every limit N >= 1,
\* events with each consecutive pair more than W apart get Continue on every call.
C2_WindowExpiry ==
    (IsRateLimit /\ registry[1].max_events >= 1) =>
        \A m \in 1..Len(EventCalls) : SpacedApart(m) => EventCalls[m].res = Continue

C2_Witness ==
    /\ IsRateLimit
    /\ registry[1].max_events >= 1
    /\ registry[1].window >= 1
    /\ Len(EventCalls) = registry[1].max_events + 1
    /\ SpacedApart(Len(EventCalls))
    /\ \A k \in 1..Len(EventCalls) : EventCalls[k].res = Continue

(***************************************************************************)
(* C3..C4: PanicLoopReflex, under SpecPanicLoop.                           *)
(***************************************************************************)
\* the event carries the error flag: the pointer leads to true in headers or body
Flagged(evt) ==
    \/ ResolvesTrue(evt.headers, registry[1].field_pointer)
    \/ ResolvesTrue(evt.body, registry[1].field_pointer)

\* the number of flagged events among the last K observations, the n-th included
FlaggedInLast(K, n) ==
    Cardinality({k \in Max(1, n - K + 1)..n : Flagged(EventCalls[k].evt)})

\* C3 as stated: for every window K and threshold M, an event after which the
\* last K observations hold fewer than M flagged events gets Continue, and a
\* flagged event after which they hold exactly M gets Halt.
C3_PanicLoopThreshold ==
    IsPanicLoop =>
        LET K == registry[1].window
            M == registry[1].min_repeats
        IN \A n \in 1..Len(EventCalls) :
              /\ FlaggedInLast(K, n) < M => EventCalls[n].res = Continue
              /\ (FlaggedInLast(K, n) = M /\ Flagged(EventCalls[n].evt))
                     => EventCalls[n].res.kind = "Halt"

\* the same statement for windows K >= 1 only (what the code does satisfy)
C3_PositiveWindow ==
    (IsPanicLoop /\ registry[1].window >= 1) => C3_PanicLoopThreshold

\* the pointer leads to no boolean in the headers and to none in the body
MissingInBoth(evt) ==
    /\ MissingOrNonBool(evt.headers, registry[1].field_pointer)
    /\ MissingOrNonBool(evt.body, registry[1].field_pointer)

\* the pointer leads to an explicit false and nowhere to true
ExplicitFalse(evt) ==
    /\ \/ ResolvesFalse(evt.headers, registry[1].field_pointer)
       \/ ResolvesFalse(evt.body, registry[1].field_pointer)
    /\ ~Flagged(evt)

\* C4: PanicLoopReflex path resolution. An event in which the pointer is missing
\* or ends at a non-boolean in both headers and body is observed as false: false
\* is what the call pushes into the ring, and the call leaves the same ring and
\* gets the same verdict as any event with an explicit false would have, from
\* the same reflex state.
C4_MissingIsFalse ==
    IsPanicLoop =>
        \A n \in 1..Len(EventCalls) :
            LET c == EventCalls[n]
            IN MissingInBoth(c.evt) =>
                  /\ c.post.ring # <<>>
                  /\ c.post.ring[Len(c.post.ring)] = FALSE
                  /\ \A e2 \in PLEvents :
                        ExplicitFalse(e2) =>
                            LET out == PanicLoopReflex_on_event(c.pre, e2, c.at)
                            IN out.reflex = c.post /\ out.res = c.res

C4_Witness ==
    /\ IsPanicLoop
    /\ Len(EventCalls) >= 2
    /\ MissingInBoth(EventCalls[2].evt)
    /\ Flagged(EventCalls[1].evt)
    /\ EventCalls[2].res.kind = "Halt"
    /\ \E e2 \in PLEvents : ExplicitFalse(e2)

(***************************************************************************)
(* C5..C6: PolicyGuardReflex, under SpecPolicyGuard.                       *)
(***************************************************************************)
\* the positions of the required pointers that do not lead to true in the headers
NotTrue(evt) ==
    {i \in 1..Len(registry[1].required_true) :
        ~ResolvesTrue(evt.headers, registry[1].required_true[i])}

First(S) == CHOOSE i \in S : \A j \in S : i <= j

\* C5: PolicyGuardReflex short-circuit. Whenever some required pointer is not
\* true in the headers, on_event returns Halt and its reason names the first
\* such pointer of the list, and only that one.
C5_ShortCircuit ==
    IsPolicyGuard =>
        \A n \in 1..Len(EventCalls) :
            LET c == EventCalls[n]
            IN NotTrue(c.evt) # {} =>
                  c.res = Halt(<<"PolicyGuardReflex",
                                 registry[1].required_true[First(NotTrue(c.evt))]>>)

\* required pointers [a, b] with a false and b true: the Halt names a
C5_Witness ==
    /\ IsPolicyGuard
    /\ registry[1].required_true = <<PtrVerified, PtrAllowed>>
    /\ Len(EventCalls) >= 1
    /\ EventCalls[1].evt.headers = HeadersFor(FALSE, TRUE)
    /\ EventCalls[1].res = Halt(<<"PolicyGuardReflex", PtrVerified>>)

\* C6: PolicyGuardReflex all-true. on_event returns Continue exactly when every
\* required pointer leads to the boolean true in the headers; otherwise it
\* returns Halt: never Alert, never an error.
C6_AllTrue ==
    IsPolicyGuard =>
        \A n \in 1..Len(EventCalls) :
            LET c == EventCalls[n]
            IN /\ c.res = Continue <=> NotTrue(c.evt) = {}
               /\ c.res.kind \in {"Continue", "Halt"}
               /\ c.res.ok

C6_Witness ==
    /\ IsPolicyGuard
    /\ Len(registry[1].required_true) = 2
    /\ Len(EventCalls) >= 2
    /\ EventCalls[1].res = Continue
    /\ EventCalls[2].res.kind = "Halt"
    /\ MissingOrNonBool(EventCalls[2].evt.headers, registry[1].required_true[1])

(***************************************************************************)
(* The supervisor: ReflexSupervisor::spawn over a MockBus.                 *)
(***************************************************************************)
\* Duration::from_secs, in units of 100 ms
from_secs(n) == n * 10

\* Duration::from_millis, in units of 100 ms
from_millis(ms) == ms \div 100

\* ReflexSupervisor::new: tick_interval: Duration::from_millis(500)
tick_interval == from_millis(500)

\* ReflexSubjects::default
AllEventsSubject == <<"fabric.events.*">>
ControlSubject == <<"fabric.control">>

\* a test double of the Reflex trait: both hooks always return the same result
StubReflex(name, result) == [type |-> "stub", name |-> name, result |-> result]

StubOutcome(r) ==
    CASE r.result = "Alert" -> Alert(<<r.name>>)
      [] r.result = "Halt" -> Halt(<<r.name>>)
      [] r.result = "Err" -> Err(<<r.name>>)
      [] OTHER -> Continue

\* r.on_event(&evt) through the trait object
Hook_on_event(r, evt, t) ==
    IF r.type = "stub" THEN {[reflex |-> r, res |-> StubOutcome(r)]}
    ELSE Reflex_on_event(r, evt, t)

\* r.on_tick(now) through the trait object
Hook_on_tick(r, t) ==
    IF r.type = "stub" THEN {[reflex |-> r, res |-> StubOutcome(r)]}
    ELSE Reflex_on_tick(r, t)

StubResults == {"Alert", "Halt", "Err"}

with_reflex_front(reflexes, reflex) == <<reflex>> \o reflexes

\* ReflexSupervisor::with_reflex: self.reflexes.push(reflex)
with_reflex(reflexes, reflex) == Append(reflexes, reflex)

\* the registries the supervisor is spawned with: the one of run_node, and
\* three test doubles registered in the order X, Y, Z
RegRunNode ==
    with_reflex(with_reflex(<<>>, RateLimitReflex_new(from_secs(1), 500)),
                PolicyGuardReflex_new(<<PtrVerified, PtrAllowed>>))
RegStubs ==
    {with_reflex(with_reflex(with_reflex(<<>>, StubReflex("X", x)),
                             StubReflex("Y", y)), StubReflex("Z", z)) :
        x \in StubResults, y \in StubResults, z \in StubResults}
Registries == {RegRunNode} \cup RegStubs

\* uuid(): the system clock in nanoseconds, printed in hexadecimal.  The model's
\* clock is far coarser: the reading is the instant and, below it, the number
\* of envelopes the bus has carried
uuid == <<now, Len(sent)>>
epoch_ms == now

control_envelope(kind, reflex, reason, evt) ==
    Envelope(<<"reflex:", kind, ":">> \o uuid,
             <<"reflex.", kind>>,
             epoch_ms,
             JObject([k \in {Key("reflex"), Key("reason"), Key("source_event")} |->
                        IF k = Key("reflex") THEN JString(<<reflex>>)
                        ELSE IF k = Key("reason") THEN JString(reason)
                        ELSE JString(evt.id)]),
             EmptyObject)

\* broadcast::Sender::send as the supervisor's receiver sees it: every message
\* reaches the receiver whatever its subject; when the receiver is a whole
\* channel behind, the oldest message is overwritten and the receiver has lagged
MockBus_publish(subject, msg) ==
    /\ sent' = Append(sent, <<subject, msg>>)
    /\ IF subState \in {"none", "closed"}
       THEN UNCHANGED <<chan, subState>>
       ELSE IF Len(chan) < capacity
            THEN chan' = Append(chan, msg) /\ UNCHANGED subState
            ELSE chan' = Append(Tail(chan), msg) /\ subState' = "lagged"

lock_acquire_unguarded(who) == lock' = who

\* tokio::sync::Mutex::lock().await
lock_acquire(who) == lock = "none" /\ lock' = who

\* dropping the MutexGuard
lock_release == lock' = "none"

Init ==
    /\ registry \in Registries
    /\ now = 0
    /\ trace = <<>>
    /\ SupervisorIdle
    /\ capacity = ChannelCapacity
    /\ BusIdle

\* simulate_reflex_events: the headers are invalid for every 10th event
SimHeaders(n) ==
    IF n % 10 = 0 THEN HeadersFor(FALSE, FALSE) ELSE HeadersFor(TRUE, TRUE)

\* simulate_reflex_events, one turn of its loop: publish evt-<counter>, then
\* sleep(Duration::from_millis(200))
SimPublish ==
    /\ now >= simWake
    /\ counter' = counter + 1
    /\ simWake' = now + from_millis(200)
    /\ MockBus_publish(AllEventsSubject,
                       Envelope(EventId(counter + 1), <<"fabric.events.mock">>, epoch_ms,
                                SimHeaders(counter + 1),
                                Obj2("seq", JNumber(counter + 1),
                                     "payload", JString(<<"synthetic test data">>))))
    /\ UNCHANGED <<registry, now, trace, lock, delivered>>
    /\ UNCHANGED evVars
    /\ UNCHANGED tkVars
    /\ UNCHANGED capacity
    /\ UNCHANGED fabVars

\* bus.subscribe(&subjects.all_events_subject).await: MockBus always gives Ok
EvSubscribe ==
    /\ evPc = "start"
    /\ subState' = "open"
    /\ evPc' = "next"
    /\ UNCHANGED <<registry, now, trace, lock, evIdx, evCur, evRes, chan, sent,
                   delivered>>
    /\ UNCHANGED tkVars
    /\ UNCHANGED srcVars
    /\ UNCHANGED capacity
    /\ UNCHANGED fabVars

\* sub.next().await returns Some(evt)
EvNext(limit) ==
    /\ evPc = "next"
    /\ subState = "open"
    /\ chan # <<>>
    /\ Len(delivered) < limit
    /\ evCur' = Head(chan)
    /\ chan' = Tail(chan)
    /\ delivered' = Append(delivered, Head(chan))
    /\ evPc' = "lock"
    /\ UNCHANGED <<registry, now, trace, lock, evIdx, evRes, subState, sent>>
    /\ UNCHANGED tkVars
    /\ UNCHANGED srcVars
    /\ UNCHANGED capacity
    /\ UNCHANGED fabVars

\* sub.next().await returns None: recv() gave Err(Lagged), the loop and its
\* receiver end.  It takes more than capacity envelopes not yet received
EvEnd ==
    /\ evPc = "next"
    /\ subState = "lagged"
    /\ evPc' = "done"
    /\ subState' = "closed"
    /\ chan' = <<>>
    /\ UNCHANGED <<registry, now, trace, lock, evIdx, evCur, evRes, sent, delivered>>
    /\ UNCHANGED tkVars
    /\ UNCHANGED srcVars
    /\ UNCHANGED capacity
    /\ UNCHANGED fabVars

\* let mut g = reflexes.lock().await
EvLock ==
    /\ evPc = "lock"
    /\ lock_acquire("event")
    /\ evIdx' = 1
    /\ evPc' = "iter"
    /\ UNCHANGED <<registry, now, trace, evCur, evRes, delivered>>
    /\ UNCHANGED busVars
    /\ UNCHANGED tkVars
    /\ UNCHANGED srcVars
    /\ UNCHANGED capacity
    /\ UNCHANGED fabVars

\* the arms of the match on r.on_event(&evt).await that publish
Escalates(res) == res.ok /\ res.kind \in {"Alert", "Halt"}

after_arm_err_breaks(res, i) == IF res.ok THEN i + 1 ELSE Len(registry) + 1

after_arm_skips(res, i) == i + 2

after_arm_halt_breaks(res, i) == IF res.kind = "Halt" THEN Len(registry) + 1 ELSE i + 1

\* every arm of the match ends the iteration for reflex i: the for loop goes on
after_arm(res, i) == i + 1

\* r.on_event(&evt).await for the reflex the pass is at
EvHook ==
    /\ evPc = "iter"
    /\ evIdx <= Len(registry)
    /\ \E out \in Hook_on_event(registry[evIdx], evCur, now) :
          /\ registry' = [registry EXCEPT ![evIdx] = out.reflex]
          /\ trace' = Append(trace, Dispatch(evIdx, "on_event", Len(delivered), evCur, out))
          /\ IF Escalates(out.res)
             THEN evRes' = out.res /\ evPc' = "publish" /\ UNCHANGED evIdx
             ELSE evIdx' = after_arm(out.res, evIdx) /\ UNCHANGED <<evRes, evPc>>
    /\ UNCHANGED <<now, lock, evCur, delivered>>
    /\ UNCHANGED busVars
    /\ UNCHANGED tkVars
    /\ UNCHANGED srcVars
    /\ UNCHANGED capacity
    /\ UNCHANGED fabVars

publish_alert(reflex, reason, evt) ==
    MockBus_publish(ControlSubject, control_envelope("alert", reflex, reason, evt))

publish_halt_as_alert(reflex, reason, evt) == publish_alert(reflex, reason, evt)

publish_halt(reflex, reason, evt) ==
    MockBus_publish(ControlSubject, control_envelope("halt", reflex, reason, evt))

\* let _ = publish_alert(..).await / publish_halt(..).await, then the next reflex
EvPublish ==
    /\ evPc = "publish"
    /\ IF evRes.kind = "Alert"
       THEN publish_alert(Reflex_name(registry[evIdx]), evRes.reason, evCur)
       ELSE publish_halt(Reflex_name(registry[evIdx]), evRes.reason, evCur)
    /\ evIdx' = after_arm(evRes, evIdx)
    /\ evRes' = Continue
    /\ evPc' = "iter"
    /\ UNCHANGED <<registry, now, trace, lock, evCur, delivered>>
    /\ UNCHANGED tkVars
    /\ UNCHANGED srcVars
    /\ UNCHANGED capacity
    /\ UNCHANGED fabVars

\* the end of the for loop: the guard is dropped, back to sub.next()
EvUnlock ==
    /\ evPc = "iter"
    /\ evIdx > Len(registry)
    /\ lock_release
    /\ evPc' = "next"
    /\ evIdx' = 0
    /\ UNCHANGED <<registry, now, trace, evCur, evRes, delivered>>
    /\ UNCHANGED busVars
    /\ UNCHANGED tkVars
    /\ UNCHANGED srcVars
    /\ UNCHANGED capacity
    /\ UNCHANGED fabVars

\* ticker.tick().await returns; let now = Instant::now().  interval(tick_every)
\* completes its first tick at once and the k-th one k periods later
TickFire ==
    /\ tkPc = "sleep"
    /\ now >= tkCount * tick_interval
    /\ tkCount' = tkCount + 1
    /\ tkNow' = now
    /\ tkPc' = "lock"
    /\ UNCHANGED <<registry, now, trace, lock, tkIdx, delivered>>
    /\ UNCHANGED busVars
    /\ UNCHANGED evVars
    /\ UNCHANGED srcVars
    /\ UNCHANGED capacity
    /\ UNCHANGED fabVars

\* let mut g = reflexes.lock().await
TickLock ==
    /\ tkPc = "lock"
    /\ lock_acquire("tick")
    /\ tkIdx' = 1
    /\ tkPc' = "iter"
    /\ UNCHANGED <<registry, now, trace, tkNow, tkCount, delivered>>
    /\ UNCHANGED busVars
    /\ UNCHANGED evVars
    /\ UNCHANGED srcVars
    /\ UNCHANGED capacity
    /\ UNCHANGED fabVars

on_tick_result_escalates(r, res) ==
    IF Escalates(res)
    THEN IF res.kind = "Alert"
         THEN publish_alert(Reflex_name(r), res.reason, NoEvent)
         ELSE publish_halt(Reflex_name(r), res.reason, NoEvent)
    ELSE UNCHANGED busVars

\* if let Err(e) = r.on_tick(now).await { eprintln!(..) }: an Err is printed,
\* an Ok is dropped with the verdict in it; the bus is not called
on_tick_result(r, res) == UNCHANGED busVars

\* r.on_tick(now).await for the reflex the pass is at
TickHook ==
    /\ tkPc = "iter"
    /\ tkIdx <= Len(registry)
    /\ \E out \in Hook_on_tick(registry[tkIdx], tkNow) :
          /\ registry' = [registry EXCEPT ![tkIdx] = out.reflex]
          /\ trace' = Append(trace, Dispatch(tkIdx, "on_tick", tkCount, NoEvent, out))
          /\ on_tick_result(registry[tkIdx], out.res)
    /\ tkIdx' = tkIdx + 1
    /\ UNCHANGED <<now, lock, tkPc, tkNow, tkCount, delivered>>
    /\ UNCHANGED evVars
    /\ UNCHANGED srcVars
    /\ UNCHANGED capacity
    /\ UNCHANGED fabVars

\* the end of the for loop: the guard is dropped, back to ticker.tick()
TickUnlock ==
    /\ tkPc = "iter"
    /\ tkIdx > Len(registry)
    /\ lock_release
    /\ tkPc' = "sleep"
    /\ tkIdx' = 0
    /\ UNCHANGED <<registry, now, trace, tkNow, tkCount, delivered>>
    /\ UNCHANGED busVars
    /\ UNCHANGED evVars
    /\ UNCHANGED srcVars
    /\ UNCHANGED capacity
    /\ UNCHANGED fabVars

Next ==
    \/ Advance(MaxNow)
    \/ SimPublish
    \/ EvSubscribe
    \/ EvNext(MaxDeliver)
    \/ EvLock
    \/ EvHook
    \/ EvPublish
    \/ EvUnlock
    \/ TickFire
    \/ TickLock
    \/ TickHook
    \/ TickUnlock

Spec == Init /\ [][Next]_vars

(***************************************************************************)
(* The end-to-end scenario: only RateLimit(window = 1 s, max = 2)          *)
(* registered on a MockBus, and a test that publishes max + 1 events on    *)
(* the observation subject within 200 ms, once the supervisor listens.     *)
(***************************************************************************)
RegEndToEnd == with_reflex(<<>>, RateLimitReflex_new(from_secs(1), 2))

BurstSize == RegEndToEnd[1].max_events + 1
BurstWindow == from_millis(200)

InitEndToEnd ==
    /\ registry = RegEndToEnd
    /\ now = 0
    /\ trace = <<>>
    /\ SupervisorIdle
    /\ capacity = ChannelCapacity
    /\ BusIdle

\* bus.publish(observation subject, event) by the test
BurstPublish ==
    /\ subState = "open"
    /\ counter < BurstSize
    /\ now <= BurstWindow
    /\ counter' = counter + 1
    /\ MockBus_publish(AllEventsSubject,
                       Envelope(EventId(counter + 1), <<"fabric.events.mock">>, epoch_ms,
                                HeadersFor(TRUE, TRUE), EmptyObject))
    /\ UNCHANGED <<registry, now, trace, lock, delivered, simWake>>
    /\ UNCHANGED evVars
    /\ UNCHANGED tkVars
    /\ UNCHANGED capacity
    /\ UNCHANGED fabVars

NextEndToEnd ==
    \/ Advance(BurstWindow)
    \/ BurstPublish
    \/ EvSubscribe
    \/ EvNext(BurstSize + 1)
    \/ EvLock
    \/ EvHook
    \/ EvPublish
    \/ EvUnlock
    \/ TickFire
    \/ TickLock
    \/ TickHook
    \/ TickUnlock

SpecEndToEnd == InitEndToEnd /\ [][NextEndToEnd]_vars

(***************************************************************************)
(* C7..C10: the supervisor.                                                *)
(***************************************************************************)
\* what the supervisor published to the control subject, in order
Controls == SelectSeq(sent, LAMBDA m : m[1] = ControlSubject)

Header(env, name) == env.headers.v[Key(name)].v

KindOf(res) == IF res.kind = "Alert" THEN "alert" ELSE "halt"

\* msg is the control envelope of verdict res of the reflex called name on evt
IsControlFor(msg, name, res, evt) ==
    /\ msg[1] = ControlSubject
    /\ msg[2].subject = <<"reflex.", KindOf(res)>>
    /\ Header(msg[2], "reflex") = <<name>>
    /\ Header(msg[2], "reason") = res.reason
    /\ Header(msg[2], "source_event") = evt.id

\* the event loop has finished its pass over the registry for the p-th envelope
PassDone(p) == p < Len(delivered) \/ (p = Len(delivered) /\ evPc = "next")

\* the positions of trace at which reflex i was handed the p-th envelope
CallsOf(p, i) ==
    {k \in DOMAIN trace :
        /\ trace[k].hook = "on_event"
        /\ trace[k].pass = p
        /\ trace[k].idx = i
        /\ trace[k].evt = delivered[p]}

AlwaysErrs(r) == r.type = "stub" /\ r.result = "Err"

\* C7: supervisor error isolation. With a reflex registered whose on_event
\* always returns an error, every other reflex, before or after it, is handed
\* every delivered envelope and has its Alert or Halt published, the event
\* loop goes on, and a tick pass reaches every reflex whatever on_tick returned.
C7_ErrorIsolation ==
    (\E e \in DOMAIN registry : AlwaysErrs(registry[e])) =>
        /\ evPc # "done"
        /\ \A c \in 1..tkCount :
              (c < tkCount \/ tkPc = "sleep") =>
                  \A i \in DOMAIN registry :
                      \E k \in DOMAIN trace :
                          /\ trace[k].hook = "on_tick"
                          /\ trace[k].pass = c
                          /\ trace[k].idx = i
        /\ \A p \in 1..Len(delivered) :
              PassDone(p) =>
                  \A i \in DOMAIN registry :
                      ~AlwaysErrs(registry[i]) =>
                          /\ CallsOf(p, i) # {}
                          /\ \A k \in CallsOf(p, i) :
                                Escalates(trace[k].res) =>
                                    \E m \in DOMAIN sent :
                                        IsControlFor(sent[m], Reflex_name(registry[i]),
                                                     trace[k].res, delivered[p])

C7_Witness ==
    /\ Len(registry) = 3
    /\ ~AlwaysErrs(registry[1]) /\ AlwaysErrs(registry[2]) /\ ~AlwaysErrs(registry[3])
    /\ Len(delivered) = 2
    /\ PassDone(2)
    /\ Len(Controls) = 4
    /\ \E k \in DOMAIN trace : trace[k].hook = "on_event" /\ ~trace[k].res.ok

\* the on_event calls that returned Alert or Halt, in the order they ran
Verdicts == SelectSeq(EventCalls, LAMBDA c : Escalates(c.res))

\* the place of a test double in the order of registration X, Y, Z
Rank(name) == CASE name = <<"X">> -> 1 [] name = <<"Y">> -> 2 [] name = <<"Z">> -> 3 [] OTHER -> 0

\* C8: publication ordering. The control envelopes are published in the order
\* the verdicts were returned: for one envelope in registration order (X before
\* Y before Z), and all those for one delivered envelope before any for a
\* later one.
C8_PublicationOrder ==
    LET V == Verdicts
        C == Controls
    IN /\ Len(C) = Len(V) - (IF evPc = "publish" THEN 1 ELSE 0)
       /\ \A i \in 1..Len(C) :
             IsControlFor(C[i], Reflex_name(registry[V[i].idx]), V[i].res,
                          delivered[V[i].pass])
       /\ \A i, j \in 1..Len(V) :
             i < j => \/ V[i].pass < V[j].pass
                      \/ V[i].pass = V[j].pass /\ V[i].idx < V[j].idx
       /\ \A i, j \in 1..Len(C) :
             (/\ i < j
              /\ Header(C[i][2], "source_event") = Header(C[j][2], "source_event")
              /\ Rank(Header(C[i][2], "reflex")) # 0)
                 => Rank(Header(C[i][2], "reflex")) < Rank(Header(C[j][2], "reflex"))

C8_Witness ==
    LET C == Controls
    IN /\ Len(registry) = 3
       /\ \A i \in 1..3 : registry[i].type = "stub" /\ registry[i].result = "Alert"
       /\ Len(delivered) = 2
       /\ PassDone(2)
       /\ Len(C) = 6
       /\ \A i \in 1..3 :
             /\ Header(C[i][2], "source_event") = delivered[1].id
             /\ Header(C[i + 3][2], "source_event") = delivered[2].id
       /\ Header(C[1][2], "reflex") = <<"X">>
       /\ Header(C[2][2], "reflex") = <<"Y">>
       /\ Header(C[3][2], "reflex") = <<"Z">>

\* C9: the end-to-end scenario, under SpecEndToEnd. Publishing max + 1 = 3
\* events within 200 ms gives exactly one control envelope: an Alert of
\* rate_limit whose source_event is the id of the third event.
C9_EndToEnd ==
    /\ Len(Controls) <= 1
    /\ \A i \in 1..Len(Controls) :
          /\ Controls[i][2].subject = <<"reflex.", "alert">>
          /\ Header(Controls[i][2], "reflex") = <<"rate_limit">>
          /\ Header(Controls[i][2], "source_event") = EventId(BurstSize)
    /\ (Len(delivered) >= BurstSize /\ PassDone(BurstSize)) => Len(Controls) >= 1

\* the first part of the scenario does hold: the third event, and none before,
\* gets the Alert
C9_FirstAlert ==
    /\ \A k \in 1..Len(EventCalls) :
          EventCalls[k].pass < BurstSize => EventCalls[k].res = Continue
    /\ (Len(delivered) >= BurstSize /\ PassDone(BurstSize)) =>
          /\ Len(Controls) >= 1
          /\ Controls[1][2].subject = <<"reflex.", "alert">>
          /\ Header(Controls[1][2], "reflex") = <<"rate_limit">>
          /\ Header(Controls[1][2], "source_event") = EventId(BurstSize)

\* two hook calls made in the same pass of the same loop
SamePass(c, d) == c.hook = d.hook /\ c.pass = d.pass

InEventPass == evPc \in {"iter", "publish"}
InTickPass == tkPc = "iter"

\* C10: mutual exclusion across loops. At most one of the two loops is inside
\* a pass over the registry, and it is the one that holds the lock; the hook
\* calls of one pass are never interleaved with a hook call of the other loop
\* (once the run leaves a pass, no later call belongs to it).
C10_MutualExclusion ==
    /\ ~(InEventPass /\ InTickPass)
    /\ InEventPass => lock = "event"
    /\ InTickPass => lock = "tick"
    /\ \A i \in 1..(Len(trace) - 1) :
          \/ SamePass(trace[i], trace[i + 1])
          \/ \A k \in (i + 2)..Len(trace) : ~SamePass(trace[i], trace[k])

\* the event loop waits for the lock while the tick loop is inside its pass,
\* after an earlier event pass has run and a tick hook has been called
C10_Witness ==
    /\ InTickPass
    /\ evPc = "lock"
    /\ \E k \in DOMAIN trace : trace[k].hook = "on_event"
    /\ \E k \in DOMAIN trace : trace[k].hook = "on_tick"

(***************************************************************************)
(* The supervisor over any FabricBus: ReflexSupervisor<BUS> is generic in  *)
(* the bus, whose subscribe and publish return Result<_, String>.  The bus *)
(* of SpecAnyBus carries envelopes as MockBus does and may, at each call,  *)
(* return Err instead.                                                     *)
(***************************************************************************)
\* FabricBus::publish returns Err: the call is made, nothing is carried
FabricBus_publish_err(subject, msg) ==
    /\ sent' = Append(sent, <<subject, msg, "Err">>)
    /\ UNCHANGED <<chan, subState>>

on_subscribe_err_retries == "start"

\* Err(e) => { eprintln!(..); return; }: the event loop's task ends
on_subscribe_err == "done"

\* bus.subscribe(&subjects.all_events_subject).await gives Err
EvSubscribeErr ==
    /\ evPc = "start"
    /\ subState = "none"
    /\ subState' = "failed"
    /\ evPc' = on_subscribe_err
    /\ UNCHANGED <<registry, now, trace, lock, evIdx, evCur, evRes, chan, sent,
                   delivered>>
    /\ UNCHANGED tkVars
    /\ UNCHANGED srcVars
    /\ UNCHANGED capacity
    /\ UNCHANGED fabVars

after_publish_err_breaks(result, i) ==
    IF result = "Err" THEN Len(registry) + 1 ELSE i + 1

\* let _ = publish_alert(..).await: the Result is discarded, the for loop goes on
after_publish(result, i) == i + 1

\* let _ = publish_alert(..).await / publish_halt(..).await where bus.publish
\* gives Err
EvPublishErr ==
    /\ evPc = "publish"
    /\ FabricBus_publish_err(ControlSubject,
                             control_envelope(KindOf(evRes), Reflex_name(registry[evIdx]),
                                              evRes.reason, evCur))
    /\ evIdx' = after_publish("Err", evIdx)
    /\ evRes' = Continue
    /\ evPc' = "iter"
    /\ UNCHANGED <<registry, now, trace, lock, evCur, delivered>>
    /\ UNCHANGED tkVars
    /\ UNCHANGED srcVars
    /\ UNCHANGED capacity
    /\ UNCHANGED fabVars

\* the runs of SpecAnyBus are those within the first clock reading: the clock
\* only stamps the envelopes here, what a failed call leads to does not read it
NextAnyBus ==
    \/ SimPublish
    \/ EvSubscribe
    \/ EvSubscribeErr
    \/ EvNext(MaxDeliver)
    \/ EvLock
    \/ EvHook
    \/ EvPublish
    \/ EvPublishErr
    \/ EvUnlock
    \/ TickFire
    \/ TickLock
    \/ TickHook
    \/ TickUnlock

SpecAnyBus == Init /\ [][NextAnyBus]_vars

\* the publish calls that returned Err
Failed(C) == {i \in DOMAIN C : Len(C[i]) = 3}

\* C13: subscription failure is fatal to the event loop only. Once subscribe
\* has failed the event loop's task is over and stays so: no envelope is ever
\* delivered, no on_event is called, nothing is published to the control
\* subject and the lock is never taken by the event loop.
C13_SubscribeFailure ==
    subState = "failed" =>
        /\ evPc = "done"
        /\ delivered = <<>>
        /\ EventCalls = <<>>
        /\ Controls = <<>>
        /\ lock # "event"

\* the subscription failed, the source went on publishing and the tick loop
\* went through the registry
C13_Witness ==
    /\ subState = "failed"
    /\ evPc = "done"
    /\ counter >= 1
    /\ Len(trace) = Len(registry)
    /\ \A k \in DOMAIN trace : trace[k].hook = "on_tick"
    /\ tkPc = "sleep"

\* C14: publish failure is recoverable. Every Alert or Halt is published by
\* exactly one call, failed or not (no retry); an envelope whose publish failed
\* is carried nowhere; every reflex is still called with every delivered
\* envelope; and the event loop does not end.
C14_PublishFailure ==
    LET V == Verdicts
        C == Controls
    IN /\ Len(C) = Len(V) - (IF evPc = "publish" THEN 1 ELSE 0)
       /\ \A i \in 1..Len(C) :
             IsControlFor(C[i], Reflex_name(registry[V[i].idx]), V[i].res,
                          delivered[V[i].pass])
       /\ \A i \in Failed(C) :
             /\ \A p \in DOMAIN delivered : delivered[p] # C[i][2]
             /\ \A q \in DOMAIN chan : chan[q] # C[i][2]
       /\ \A p \in 1..Len(delivered) :
             PassDone(p) => \A i \in DOMAIN registry : CallsOf(p, i) # {}
       /\ subState # "failed" => evPc # "done"

\* the publish of X's verdict failed, Y and Z were still called with the same
\* envelope, and the loop went on to evaluate a second envelope
C14_Witness ==
    LET C == Controls
    IN /\ Len(registry) = 3
       /\ Len(C) >= 3
       /\ 1 \in Failed(C)
       /\ Header(C[1][2], "reflex") = <<"X">>
       /\ Header(C[2][2], "source_event") = Header(C[1][2], "source_event")
       /\ Len(delivered) = 2
       /\ PassDone(2)
       /\ \E i \in Failed(C) : Header(C[i][2], "source_event") = delivered[2].id

(***************************************************************************)
(* C11, C12, C15..C17: the supervisor over MockBus, under Spec.            *)
(***************************************************************************)
\* C11: the registry lock is never held across a bus publish. In no reachable
\* state is the event loop inside the publish of a control envelope while it
\* holds the lock on the registry.
C11_LockNotHeldAcrossPublish == ~(evPc = "publish" /\ lock = "event")

\* the other half of C11: the tick loop never waits for the lock while the event
\* loop is inside a publish
C11_TickNeverWaitsOnPublish == ~(evPc = "publish" /\ tkPc = "lock")

\* C12: control envelopes are never round-tripped. No envelope the supervisor
\* published to the control subject is returned by its own subscription, and
\* none is handed to a reflex's on_event.
C12_NoRoundTrip ==
    LET C == Controls
    IN /\ \A p \in 1..Len(delivered) :
             \A m \in 1..Len(C) : delivered[p] # C[m][2]
       /\ \A k \in 1..Len(EventCalls) :
             \A m \in 1..Len(C) : EventCalls[k].evt # C[m][2]

\* C15: no events are dropped inside the engine. The on_event calls are, in
\* order, reflex 1..n on the first delivered envelope, then reflex 1..n on the
\* second, and so on: each reflex once per envelope, in registration order,
\* envelopes in the order of delivery.
C15_NoDropInsideEngine ==
    LET n == Len(registry)
        E == EventCalls
    IN /\ \A k \in 1..Len(E) :
             /\ E[k].pass = ((k - 1) \div n) + 1
             /\ E[k].idx = ((k - 1) % n) + 1
             /\ E[k].pass <= Len(delivered)
             /\ E[k].evt = delivered[E[k].pass]
       /\ \A p \in 1..Len(delivered) : PassDone(p) => Len(E) >= p * n
       /\ evPc = "next" => Len(E) = Len(delivered) * n

C15_Witness ==
    /\ Len(registry) = 3
    /\ Len(delivered) = 2
    /\ PassDone(2)
    /\ Len(EventCalls) = 6
    /\ EventCalls[4].evt = delivered[2]
    /\ delivered[1] # delivered[2]
    /\ \E k \in 1..6 : ~EventCalls[k].res.ok

\* d is the call of on_event on reflex j within pass p
IsCallOf(d, p, j) == d.hook = "on_event" /\ d.pass = p /\ d.idx = j

\* C16: Halt is advisory, verdicts are not suppressed. After a reflex returned
\* Halt or Alert for an envelope, every reflex registered after it is still
\* called with that envelope and has its own Alert or Halt published; the
\* envelope after it is evaluated by every reflex, and no loop ends.
C16_HaltIsAdvisory ==
    /\ evPc # "done"
    /\ \A k \in DOMAIN trace :
          LET c == trace[k]
          IN (c.hook = "on_event" /\ Escalates(c.res) /\ PassDone(c.pass)) =>
                /\ \A j \in (c.idx + 1)..Len(registry) :
                      \E k2 \in (k + 1)..Len(trace) :
                          /\ IsCallOf(trace[k2], c.pass, j)
                          /\ trace[k2].evt = c.evt
                          /\ Escalates(trace[k2].res) =>
                                \E m \in DOMAIN sent :
                                    IsControlFor(sent[m], Reflex_name(registry[j]),
                                                 trace[k2].res, c.evt)
                /\ (c.pass < Len(delivered) /\ PassDone(c.pass + 1)) =>
                      \A j \in DOMAIN registry :
                          \E k2 \in (k + 1)..Len(trace) :
                              /\ IsCallOf(trace[k2], c.pass + 1, j)
                              /\ trace[k2].evt = delivered[c.pass + 1]

C16_Witness ==
    /\ Len(registry) = 3
    /\ registry[1].type = "stub" /\ registry[1].result = "Halt"
    /\ registry[2].type = "stub" /\ registry[2].result = "Alert"
    /\ registry[3].type = "stub" /\ registry[3].result = "Halt"
    /\ Len(delivered) = 2
    /\ PassDone(2)
    /\ Len(Controls) = 6
    /\ \E k \in DOMAIN trace : trace[k].hook = "on_tick" /\ k > 3

\* the subject a verdict's control envelope carries
ControlSubjectOf(res) ==
    CASE res.kind = "Alert" -> <<"reflex.", "alert">>
      [] res.kind = "Halt" -> <<"reflex.", "halt">>

\* C17: verdict-to-envelope mapping. The bus carried, besides the events of the
\* source, exactly one envelope per Alert or Halt returned by on_event, sent to
\* the control subject, with subject reflex.alert for Alert and reflex.halt for
\* Halt and headers of the reflex's name, the reason and the id of the
\* triggering envelope; Continue (and an error) sends nothing.
C17_VerdictToEnvelope ==
    LET V == Verdicts
        C == Controls
        pending == IF evPc = "publish" THEN 1 ELSE 0
    IN /\ Len(sent) = counter + Len(C)
       /\ Len(C) = Len(V) - pending
       /\ \A i \in 1..Len(C) :
             /\ C[i][1] = ControlSubject
             /\ C[i][2].subject = ControlSubjectOf(V[i].res)
             /\ DOMAIN C[i][2].headers.v = {Key("reflex"), Key("reason"), Key("source_event")}
             /\ C[i][2].headers.v[Key("reflex")] = JString(<<Reflex_name(registry[V[i].idx])>>)
             /\ C[i][2].headers.v[Key("reason")] = JString(V[i].res.reason)
             /\ C[i][2].headers.v[Key("source_event")] = JString(V[i].evt.id)

C17_Witness ==
    LET C == Controls
    IN /\ Len(registry) = 3
       /\ registry[1].type = "stub" /\ registry[1].result = "Alert"
       /\ registry[2].type = "stub" /\ registry[2].result = "Err"
       /\ registry[3].type = "stub" /\ registry[3].result = "Halt"
       /\ Len(delivered) = 1
       /\ PassDone(1)
       /\ Len(C) = 2
       /\ C[1][2].subject = <<"reflex.", "alert">>
       /\ C[2][2].subject = <<"reflex.", "halt">>
       /\ Header(C[2][2], "source_event") = EventId(1)

(***************************************************************************)
(* C18: RateLimitReflex on tick, under SpecRateLimit.                      *)
(***************************************************************************)
\* C18: RateLimitReflex is silent on tick. Every on_tick returns Continue and
\* leaves the reflex, its queue of instants included, as it was, however old
\* the instants in the queue are.
C18_SilentOnTick ==
    IsRateLimit =>
        \A k \in DOMAIN trace :
            trace[k].hook = "on_tick" =>
                /\ trace[k].res = Continue
                /\ trace[k].post = trace[k].pre

\* a tick after an Alert, when every instant in the queue is older than the window
C18_Witness ==
    /\ IsRateLimit
    /\ Len(trace) >= 2
    /\ LET c == trace[Len(trace)]
           b == trace[Len(trace) - 1]
       IN /\ c.hook = "on_tick"
          /\ b.hook = "on_event"
          /\ b.res.kind = "Alert"
          /\ c.pre.deque # <<>>
          /\ \A x \in DOMAIN c.pre.deque : c.at - c.pre.deque[x] > c.pre.window
          /\ c.post.deque = c.pre.deque

(***************************************************************************)
(* C19: the ring of PanicLoopReflex, under SpecPanicLoop.                  *)
(***************************************************************************)
\* C19: the ring buffer is fixed-size. For every window, after any sequence of
\* on_event calls the ring holds at most window booleans.
C19_RingBounded ==
    IsPanicLoop => Len(registry[1].ring) <= registry[1].window

\* the same bound for windows of at least one (what the code does satisfy)
C19_PositiveWindow ==
    (IsPanicLoop /\ registry[1].window >= 1) => C19_RingBounded

(***************************************************************************)
(* C20: the tick loop for ever, under SpecTickLive.  The histories the     *)
(* tick loop writes (tkCount, trace) and the clock grow without end, so    *)
(* the tick loop is taken here without them: the ticker comes due again    *)
(* and again as time passes, and a hook call leaves no record.  The event  *)
(* loop runs over any FabricBus, whose subscription may fail or end.       *)
(***************************************************************************)
\* sub.next().await returns None: the bus ended the stream
EvStreamEnd ==
    /\ evPc = "next"
    /\ subState = "open"
    /\ evPc' = "done"
    /\ subState' = "closed"
    /\ chan' = <<>>
    /\ UNCHANGED <<registry, now, trace, lock, evIdx, evCur, evRes, sent, delivered>>
    /\ UNCHANGED tkVars
    /\ UNCHANGED srcVars
    /\ UNCHANGED capacity
    /\ UNCHANGED fabVars

\* ticker.tick().await returns; let now = Instant::now()
LiveTickFire ==
    /\ tkPc = "sleep"
    /\ tkNow' = now
    /\ tkPc' = "lock"
    /\ UNCHANGED <<registry, now, trace, lock, tkIdx, tkCount, delivered>>
    /\ UNCHANGED busVars
    /\ UNCHANGED evVars
    /\ UNCHANGED srcVars
    /\ UNCHANGED capacity
    /\ UNCHANGED fabVars

tick_after_err_ends(res) == IF res.ok THEN "iter" ELSE "done"

\* if let Err(e) = r.on_tick(now).await { eprintln!(..) }: whatever the hook
\* returned, the for loop goes on
tick_after(res) == "iter"

\* r.on_tick(now).await for the reflex the pass is at
LiveTickHook ==
    /\ tkPc = "iter"
    /\ tkIdx <= Len(registry)
    /\ \E out \in Hook_on_tick(registry[tkIdx], tkNow) :
          /\ registry' = [registry EXCEPT ![tkIdx] = out.reflex]
          /\ tkPc' = tick_after(out.res)
    /\ tkIdx' = tkIdx + 1
    /\ UNCHANGED <<now, trace, lock, tkNow, tkCount, delivered>>
    /\ UNCHANGED busVars
    /\ UNCHANGED evVars
    /\ UNCHANGED srcVars
    /\ UNCHANGED capacity
    /\ UNCHANGED fabVars

InitTickLive ==
    /\ registry \in RegStubs
    /\ now = 0
    /\ trace = <<>>
    /\ SupervisorIdle
    /\ capacity = ChannelCapacity
    /\ BusIdle

NextTickLive ==
    \/ SimPublish
    \/ EvSubscribe
    \/ EvSubscribeErr
    \/ EvNext(MaxDeliver)
    \/ EvStreamEnd
    \/ EvLock
    \/ EvHook
    \/ EvPublish
    \/ EvPublishErr
    \/ EvUnlock
    \/ LiveTickFire
    \/ TickLock
    \/ LiveTickHook
    \/ TickUnlock

\* the runtime runs every task that can make a step, a hook call and a publish
\* return, the ticker comes due, and the tokio Mutex serves its waiters in the
\* order they came (a waiting tick loop is not overtaken for ever)
FairTickLive ==
    /\ WF_vars(EvHook)
    /\ WF_vars(EvPublish \/ EvPublishErr)
    /\ WF_vars(EvUnlock)
    /\ WF_vars(LiveTickFire)
    /\ SF_vars(TickLock)
    /\ WF_vars(LiveTickHook)
    /\ WF_vars(TickUnlock)

SpecTickLive == InitTickLive /\ [][NextTickLive]_vars /\ FairTickLive

\* C20: the tick loop runs for ever, independently of the event loop. In every
\* fair run on_tick is called infinitely often on each of the three reflexes,
\* whether the event loop goes on, never subscribed or ended, and whatever
\* on_tick returned; within a pass the reflexes are called in registration
\* order, from the first to the last.
C20_TickForever ==
    /\ []<><<LiveTickHook /\ tkIdx = 1>>_vars
    /\ []<><<LiveTickHook /\ tkIdx = 2>>_vars
    /\ []<><<LiveTickHook /\ tkIdx = 3>>_vars
    /\ [][tkIdx' # tkIdx =>
            \/ tkIdx' = tkIdx + 1 /\ tkIdx <= Len(registry) /\ tkPc = "iter"
            \/ tkIdx' = 1 /\ tkIdx = 0
            \/ tkIdx' = 0 /\ tkIdx = Len(registry) + 1]_vars

\* a tick pass on its way after the event loop has ended, past a reflex whose
\* on_tick returned an error
C20_Witness ==
    /\ evPc = "done"
    /\ subState \in {"failed", "closed"}
    /\ tkPc = "iter"
    /\ tkIdx = 3
    /\ registry[2].result = "Err"
    /\ lock = "tick"

(***************************************************************************)
(* C21: a subscriber that falls behind, under SpecLag.  Falling behind is  *)
(* the same event at every capacity of the broadcast channel: the channel  *)
(* of SpecLag retains LagCapacity envelopes where get_bus asks for 1000.   *)
(* The event source is simulate_reflex_events taken without the clock:     *)
(* its sleep ends at some time, and one turn of its loop is one step.      *)
(***************************************************************************)
\* simulate_reflex_events: if counter % 100 == 0 { for _ in 0..550 { .. } }
BurstEvery == 100
BurstCount == 550

\* broadcast::Sender::send called once for each of msgs, as the supervisor's
\* receiver sees it: the channel keeps the newest capacity messages, and the
\* receiver has lagged once an unreceived one was overwritten
broadcast_send_all(q, st, msgs) ==
    IF st \in {"none", "closed", "failed"}
    THEN [chan |-> q, subState |-> st]
    ELSE LET all == q \o msgs
         IN IF Len(all) <= capacity
            THEN [chan |-> all, subState |-> st]
            ELSE [chan |-> SubSeq(all, Len(all) - capacity + 1, Len(all)),
                  subState |-> "lagged"]

\* the envelope of the flood: id burst-<counter>, subject fabric.events.burst
BurstEnvelope(n) ==
    Envelope(<<"burst-", n>>, <<"fabric.events.burst">>, epoch_ms,
             HeadersFor(TRUE, TRUE), Obj1("burst", JNumber(n)))

\* what one turn of the loop of simulate_reflex_events publishes
SimTurnEnvelopes(n) ==
    <<Envelope(EventId(n), <<"fabric.events.mock">>, epoch_ms, SimHeaders(n),
               Obj2("seq", JNumber(n), "payload", JString(<<"synthetic test data">>)))>>
    \o (IF n % BurstEvery = 0 THEN [i \in 1..BurstCount |-> BurstEnvelope(n)] ELSE <<>>)

\* simulate_reflex_events, one turn of its loop
SimTurn(limit) ==
    /\ counter < limit
    /\ counter' = counter + 1
    /\ LET msgs == SimTurnEnvelopes(counter + 1)
           after == broadcast_send_all(chan, subState, msgs)
       IN /\ chan' = after.chan
          /\ subState' = after.subState
          /\ sent' = sent \o [i \in 1..Len(msgs) |-> <<AllEventsSubject, msgs[i]>>]
    /\ UNCHANGED <<registry, now, trace, lock, delivered, simWake>>
    /\ UNCHANGED evVars
    /\ UNCHANGED tkVars
    /\ UNCHANGED capacity
    /\ UNCHANGED fabVars

InitLag ==
    /\ registry \in Registries
    /\ now = 0
    /\ trace = <<>>
    /\ SupervisorIdle
    /\ capacity = LagCapacity
    /\ BusIdle

NextLag ==
    \/ SimTurn(MaxTurns)
    \/ EvSubscribe
    \/ EvNext(MaxDeliver)
    \/ EvEnd
    \/ EvLock
    \/ EvHook
    \/ EvPublish
    \/ EvUnlock
    \/ TickFire
    \/ TickLock
    \/ TickHook
    \/ TickUnlock

SpecLag == InitLag /\ [][NextLag]_vars

\* the subscription was open and the source alone published more than the
\* channel retains before the event loop took anything
FellBehind ==
    /\ delivered = <<>>
    /\ Controls = <<>>
    /\ counter > capacity

\* C21: the subscription yields envelopes until the underlying stream ends.
\* The bus is never closed (its Sender lives as long as the MockBus), so
\* sub.next() never returns None and the event loop never ends, however far
\* the subscriber has fallen behind the publishers.
C21_NoEndWhileBusOpen == evPc # "done"

\* what the subscription does keep to: the envelopes it yields are, in order,
\* envelopes the bus carried, each later in the bus's order than the one before
C21_ArrivalOrder ==
    \E f \in [1..Len(delivered) -> 1..Len(sent)] :
        /\ \A p \in 1..Len(delivered) : sent[f[p]][2] = delivered[p]
        /\ \A p \in 1..(Len(delivered) - 1) : f[p] < f[p + 1]

\* the event loop ended on a lag the source alone caused
C21_EndedOnLag == ~(evPc = "done" /\ FellBehind)

(***************************************************************************)
(* The in-process Bus of core-fabric (bus.rs), under SpecFabric: any       *)
(* number of subscribers, each with its bounded channel, and a publisher.  *)
(* Topics and patterns are written character by character, so that a       *)
(* prefix of the sequence is a prefix of the string.                       *)
(***************************************************************************)
\* str::strip_suffix("/*"): Some(the rest) when the string ends in "/*"
ends_with_slash_star(s) ==
    Len(s) >= 2 /\ s[Len(s) - 1] = "/" /\ s[Len(s)] = "*"

strip_suffix(s) == SubSeq(s, 1, Len(s) - 2)

\* str::starts_with
starts_with(s, pref) ==
    Len(pref) <= Len(s) /\ SubSeq(s, 1, Len(pref)) = pref

matches_exact_only(pattern, topic) == pattern = topic

matches(pattern, topic) ==
    IF ends_with_slash_star(pattern)
    THEN starts_with(topic, strip_suffix(pattern))
    ELSE pattern = topic

\* the patterns subscribers register and the topics publishers send to
Patterns == {<<"a", "/", "*">>, <<"a", "/", "b">>, <<"b", "/", "*">>}
Topics == {<<"a", "/", "b">>, <<"a", "b">>}

\* Envelope::new: each envelope has an id of its own (a ULID), here the number
\* of the publish call it is handed to
FabricEnvelope(n) == [id |-> n]

\* every order in which the ids of S can come out of HashMap::values
RECURSIVE Orders(_)
Orders(S) ==
    IF S = {} THEN {<<>>}
    ELSE UNION {{<<x>> \o rest : rest \in Orders(S \ {x})} : x \in S}

InitFabric ==
    /\ registry = <<>>
    /\ now = 0
    /\ trace = <<>>
    /\ SupervisorIdle
    /\ capacity = ChannelCapacity
    /\ BusIdle

\* Bus::subscribe(pattern)
Bus_subscribe(pattern) ==
    /\ next_id < MaxSubs
    /\ subs' = Append(subs, pattern)
    /\ next_id' = next_id + 1
    /\ rx' = Append(rx, <<>>)
    /\ rxOpen' = Append(rxOpen, TRUE)
    /\ inbox' = Append(inbox, <<>>)
    /\ UNCHANGED <<pubPc, targets, pubCur, published>>
    /\ UNCHANGED <<registry, now, trace, capacity>>
    /\ UNCHANGED supVars

\* Bus::publish(topic, env), up to the for loop: the Senders of the matching
\* entries are collected under the read lock, in the order of the map
Bus_publish_collect(topic) ==
    /\ pubPc = "idle"
    /\ Len(published) < MaxPub
    /\ targets' \in Orders({id \in 0..(next_id - 1) : matches(subs[id + 1], topic)})
    /\ published' = Append(published, [topic |-> topic,
                                       env |-> FabricEnvelope(Len(published) + 1),
                                       known |-> next_id, done |-> FALSE])
    /\ pubCur' = Len(published) + 1
    /\ pubPc' = "send"
    /\ UNCHANGED <<subs, next_id, rx, rxOpen, inbox>>
    /\ UNCHANGED <<registry, now, trace, capacity>>
    /\ UNCHANGED supVars

\* let _ = tx.send(env.clone()).await for the next target: Sender::send waits
\* until the channel has room, and gives Err at once if the Receiver is gone
Bus_publish_send ==
    /\ pubPc = "send"
    /\ targets # <<>>
    /\ LET id == Head(targets)
       IN IF ~rxOpen[id + 1]
          THEN UNCHANGED <<rx, inbox>>
          ELSE /\ Len(rx[id + 1]) < QueueCapacity
               /\ rx' = [rx EXCEPT ![id + 1] = Append(@, published[pubCur].env)]
               /\ inbox' = [inbox EXCEPT ![id + 1] = Append(@, pubCur)]
    /\ targets' = Tail(targets)
    /\ UNCHANGED <<subs, next_id, rxOpen, pubPc, pubCur, published>>
    /\ UNCHANGED <<registry, now, trace, capacity>>
    /\ UNCHANGED supVars

\* the for loop is over: publish returns
Bus_publish_return ==
    /\ pubPc = "send"
    /\ targets = <<>>
    /\ pubPc' = "idle"
    /\ published' = [published EXCEPT ![pubCur].done = TRUE]
    /\ UNCHANGED <<subs, next_id, rx, rxOpen, targets, pubCur, inbox>>
    /\ UNCHANGED <<registry, now, trace, capacity>>
    /\ UNCHANGED supVars

\* a subscriber takes the next envelope: subscription.rx.recv().await
Subscription_recv(id) ==
    /\ rxOpen[id + 1]
    /\ rx[id + 1] # <<>>
    /\ rx' = [rx EXCEPT ![id + 1] = Tail(@)]
    /\ UNCHANGED <<subs, next_id, rxOpen, pubPc, targets, pubCur, published, inbox>>
    /\ UNCHANGED <<registry, now, trace, capacity>>
    /\ UNCHANGED supVars

\* a subscriber drops its Subscription: the Receiver is gone, the SubEntry stays
Subscription_drop(id) ==
    /\ rxOpen[id + 1]
    /\ rxOpen' = [rxOpen EXCEPT ![id + 1] = FALSE]
    /\ rx' = [rx EXCEPT ![id + 1] = <<>>]
    /\ UNCHANGED <<subs, next_id, pubPc, targets, pubCur, published, inbox>>
    /\ UNCHANGED <<registry, now, trace, capacity>>
    /\ UNCHANGED supVars

NextFabric ==
    \/ \E pattern \in Patterns : Bus_subscribe(pattern)
    \/ \E topic \in Topics : Bus_publish_collect(topic)
    \/ Bus_publish_send
    \/ Bus_publish_return
    \/ \E id \in 0..(next_id - 1) : Subscription_recv(id)
    \/ \E id \in 0..(next_id - 1) : Subscription_drop(id)

SpecFabric == InitFabric /\ [][NextFabric]_vars

\* the publisher is inside the for loop with a target still to be sent to
Sending == pubPc = "send" /\ targets # <<>>

\* the channel of subscription id is full and its Receiver alive
Full(id) == rxOpen[id + 1] /\ Len(rx[id + 1]) >= QueueCapacity

\* C22: publish is best-effort and drops on full queues. A publisher inside
\* the loop over its targets can always take its next step by itself: facing a
\* full queue it drops the envelope for that subscriber and goes on, so no
\* subscriber that fails to drain its queue holds it up.
C22_PublishNeverWaits == Sending => ENABLED Bus_publish_send

\* the other half of C22: delivery to another subscriber, whose queue has room,
\* is never held up behind a subscriber whose queue is full
C22_OthersNotDelayed ==
    ~(/\ Sending
      /\ Full(Head(targets))
      /\ \E i \in 2..Len(targets) : ~Full(targets[i]))

\* the pattern equals the topic, or is some prefix of the topic followed by "/*"
PatternCovers(pattern, topic) ==
    \/ pattern = topic
    \/ \E n \in 0..Len(topic) :
          /\ Len(pattern) = n + 2
          /\ pattern[n + 1] = "/" /\ pattern[n + 2] = "*"
          /\ \A i \in 1..n : pattern[i] = topic[i]

\* the places in the history of subscription id at which call k reached it
Reached(k, id) == {j \in DOMAIN inbox[id + 1] : inbox[id + 1][j] = k}

\* C23: topic matching. A subscriber whose pattern neither equals the topic
\* nor is a prefix of it followed by "/*" never receives the envelope; once
\* publish has returned, every subscriber registered when it began whose
\* pattern does so and whose receiver is alive has received it, once; and the
\* queue of a subscriber holds the envelopes of the calls that reached it last.
C23_TopicMatching ==
    /\ \A k \in DOMAIN published :
          \A id \in 0..(next_id - 1) :
              LET covers == PatternCovers(subs[id + 1], published[k].topic)
                  got == Reached(k, id)
              IN /\ Cardinality(got) <= 1
                 /\ got # {} => (id < published[k].known /\ covers)
                 /\ (published[k].done /\ id < published[k].known /\ covers
                        /\ rxOpen[id + 1]) => got # {}
    /\ \A id \in 0..(next_id - 1) :
          LET q == rx[id + 1]
              h == inbox[id + 1]
          IN /\ Len(q) <= Len(h)
             /\ \A i \in 1..Len(q) : q[i] = published[h[Len(h) - Len(q) + i]].env

\* a publish to "ab" has returned: the subscriber of "a/*" received it, the
\* subscriber of "a/b" did not
C23_Witness ==
    /\ subs = << <<"a", "/", "*">>, <<"a", "/", "b">> >>
    /\ Len(published) >= 1
    /\ published[1].topic = <<"a", "b">>
    /\ published[1].known = 2
    /\ published[1].done
    /\ inbox = << <<1>>, <<>> >>

(***************************************************************************)
(* C24..C25: PanicLoopReflex, under SpecPanicLoop.                         *)
(***************************************************************************)
\* C24: PanicLoopReflex verdict characterisation. For every window K and
\* threshold M, the n-th on_event returns Halt if and only if at least M of
\* the last min(K, n) observations, the n-th included, are hits, and Continue
\* otherwise.
C24_VerdictCharacterisation ==
    IsPanicLoop =>
        LET K == registry[1].window
            M == registry[1].min_repeats
        IN \A n \in 1..Len(EventCalls) :
              IF FlaggedInLast(K, n) >= M
              THEN EventCalls[n].res.kind = "Halt"
              ELSE EventCalls[n].res = Continue

\* the same characterisation for windows K >= 1 (what the code does satisfy),
\* with its consequence: Halt is returned again for an event that is no hit
\* while the window still holds M hits
C24_PositiveWindow ==
    (IsPanicLoop /\ registry[1].window >= 1) => C24_VerdictCharacterisation

\* window 2, threshold 1: a hit, then an event that is no hit and gets Halt
\* again, then one more that gets Continue, the hit having left the window
C24_HaltRepeated ==
    /\ IsPanicLoop
    /\ registry[1].window = 2
    /\ registry[1].min_repeats = 1
    /\ Len(EventCalls) = 3
    /\ Flagged(EventCalls[1].evt)
    /\ ~Flagged(EventCalls[2].evt) /\ EventCalls[2].res.kind = "Halt"
    /\ ~Flagged(EventCalls[3].evt) /\ EventCalls[3].res = Continue

\* the ring before the call, or the ring before the call less its oldest entry
KeptOf(ring) == IF ring = <<>> THEN {ring} ELSE {ring, Tail(ring)}

\* C25: PanicLoopReflex hit extraction. Each on_event pushes exactly one value
\* into the ring: true if and only if the pointer leads to the boolean true in
\* the headers or in the body of the event; true in both is one hit.
C25_HitExtraction ==
    IsPanicLoop =>
        \A n \in 1..Len(EventCalls) :
            LET c == EventCalls[n]
            IN \E kept \in KeptOf(c.pre.ring) :
                  c.post.ring = Append(kept, Flagged(c.evt))

\* a hit in the body alone, then a hit in both headers and body: two entries
C25_Witness ==
    /\ IsPanicLoop
    /\ registry[1].window = 2
    /\ Len(EventCalls) >= 2
    /\ ~ResolvesTrue(EventCalls[1].evt.headers, registry[1].field_pointer)
    /\ ResolvesTrue(EventCalls[1].evt.body, registry[1].field_pointer)
    /\ ResolvesTrue(EventCalls[2].evt.headers, registry[1].field_pointer)
    /\ ResolvesTrue(EventCalls[2].evt.body, registry[1].field_pointer)
    /\ EventCalls[2].post.ring = <<TRUE, TRUE>>

(***************************************************************************)
(* C26: the verdicts of on_tick, under Spec.                               *)
(***************************************************************************)
\* the on_tick calls that returned Alert or Halt
TickVerdicts == {k \in DOMAIN trace : trace[k].hook = "on_tick" /\ Escalates(trace[k].res)}

\* C26: tick-hook verdicts are never escalated. Whatever the on_tick calls
\* returned, there are no more control envelopes than Alerts and Halts returned
\* by on_event, and each names as its source the id of an envelope the
\* subscription delivered, the one that triggered it.
C26_TickNeverEscalates ==
    LET C == Controls
    IN /\ Len(C) <= Len(Verdicts)
       /\ \A m \in 1..Len(C) :
             \E p \in 1..Len(delivered) :
                 Header(C[m][2], "source_event") = delivered[p].id

\* on_tick returned Alert or Halt three times and nothing was published; then
\* an envelope went through the registry and its three verdicts were
C26_Witness ==
    /\ Len(registry) = 3
    /\ \A i \in 1..3 : registry[i].type = "stub" /\ registry[i].result \in {"Alert", "Halt"}
    /\ TickVerdicts = {1, 2, 3}
    /\ Len(delivered) = 1
    /\ PassDone(1)
    /\ Len(Controls) = 3

(***************************************************************************)
(* C27..C28: RateLimitReflex, under SpecRateLimit.                         *)
(***************************************************************************)
\* the on_event calls up to the n-th that ran no more than the window before it
ObservedInWindow(n) ==
    {k \in 1..n : EventCalls[n].at - EventCalls[k].at <= registry[1].window}

\* C27: RateLimitReflex queue invariant. After the on_event call at instant t
\* the queue is in non-decreasing order, ends with t, holds no instant more
\* than the window before t (one exactly the window old is kept), and is as
\* long as the number of events observed in [t - window, t]; the verdict is
\* Alert exactly when that number exceeds max_events.
C27_QueueInvariant ==
    IsRateLimit =>
        \A n \in 1..Len(EventCalls) :
            LET c == EventCalls[n]
                q == c.post.deque
                seen == Cardinality(ObservedInWindow(n))
            IN /\ q # <<>>
               /\ q[Len(q)] = c.at
               /\ \A i \in 1..(Len(q) - 1) : q[i] <= q[i + 1]
               /\ \A i \in 1..Len(q) : c.at - q[i] <= registry[1].window
               /\ Len(q) = seen
               /\ c.res.kind = "Alert" <=> seen > registry[1].max_events
               /\ c.res.kind \in {"Alert", "Continue"}

\* a sustained flood: an Alert, then an event whose call evicts an instant and
\* keeps one exactly the window old, and gets Alert again
C27_Witness ==
    /\ IsRateLimit
    /\ registry[1].window >= 1
    /\ Len(EventCalls) = 3
    /\ EventCalls[2].res.kind = "Alert"
    /\ EventCalls[3].res.kind = "Alert"
    /\ Len(EventCalls[3].post.deque) <= Len(EventCalls[3].pre.deque)
    /\ EventCalls[3].post.deque[1] = EventCalls[3].at - registry[1].window

\* C28: RateLimitReflex is content-blind. From the same state and at the same
\* instant, on_event leaves the same queue and returns the same verdict for
\* any event, whatever its id, subject, ts_ms, headers and body; so two runs
\* with the same arrival instants go through the same queues and verdicts.
C28_ContentBlind ==
    IsRateLimit =>
        \A n \in 1..Len(EventCalls) :
            LET c == EventCalls[n]
            IN \A e2 \in RLEvents :
                  LET out == RateLimitReflex_on_event(c.pre, e2, c.at)
                  IN out.reflex = c.post /\ out.res = c.res

\* events of both subjects, with different ts_ms, counted together to an Alert
C28_Witness ==
    /\ IsRateLimit
    /\ registry[1].max_events = 1
    /\ Len(EventCalls) >= 2
    /\ EventCalls[1].evt.subject # EventCalls[2].evt.subject
    /\ EventCalls[1].evt.ts_ms # EventCalls[2].evt.ts_ms
    /\ EventCalls[1].res = Continue
    /\ EventCalls[2].res.kind = "Alert"

(***************************************************************************)
(* C29: PolicyGuardReflex, under SpecPolicyGuard.                          *)
(***************************************************************************)
\* C29: PolicyGuardReflex is stateless and header-only. No call of either hook
\* changes the reflex; on_event returns for any event with the same headers,
\* whatever its body, the verdict it returned for this one; and two events with
\* equal headers get equal verdicts wherever in the run they come.
C29_StatelessHeaderOnly ==
    IsPolicyGuard =>
        /\ \A k \in DOMAIN trace :
              /\ trace[k].post = trace[k].pre
              /\ trace[k].pre = registry[1]
        /\ \A n \in 1..Len(EventCalls) :
              LET c == EventCalls[n]
              IN /\ \A e2 \in PGEvents :
                       e2.headers = c.evt.headers =>
                           PolicyGuardReflex_on_event(c.pre, e2, c.at).res = c.res
                 /\ \A m \in 1..Len(EventCalls) :
                       EventCalls[m].evt.headers = c.evt.headers
                           => EventCalls[m].res = c.res

\* two events with the same headers, one of them with a body in which every
\* required pointer leads to true: both get the same Halt
C29_Witness ==
    /\ IsPolicyGuard
    /\ registry[1].required_true = <<PtrVerified, PtrAllowed>>
    /\ Len(EventCalls) = 2
    /\ EventCalls[1].evt.headers = EventCalls[2].evt.headers
    /\ EventCalls[1].evt.body = EmptyObject
    /\ EventCalls[2].evt.body = HeadersFor(TRUE, TRUE)
    /\ EventCalls[1].res.kind = "Halt"
    /\ EventCalls[2].res = EventCalls[1].res

\* a tick, then an event: the tick left the reflex as it was
C29_TickThenEvent ==
    /\ IsPolicyGuard
    /\ Len(trace) = 2
    /\ trace[1].hook = "on_tick" /\ trace[1].res = Continue
    /\ trace[2].hook = "on_event" /\ trace[2].res.kind = "Halt"
    /\ trace[2].pre = trace[1].pre

====
